---- MODULE Spec2Model ----
(***************************************************************************)
(* aws_billing_exporter: the start-up path of main (filterServerMetrics,   *)
(* NewExporter) and the Collect/scrape path of the Exporter, run by        *)
(* concurrent collector goroutines.                                        *)
(*                                                                         *)
(* Strings that the program parses (the metrics filter, a cost amount) are *)
(* sequences of one-character strings, so that Split, Atoi and ParseFloat  *)
(* are computed character by character as strconv and strings do.          *)
(***************************************************************************)
EXTENDS Integers, Sequences, FiniteSets, Bags, TLC

VARIABLES
    filter,                 \* main: *awsBillingServerMetricFields (dead, and forgotten, once serving)
    mainPc,                 \* main: "start", "filtered", "constructed", "serving", "fatal"
    selectedServerMetrics,  \* main: the map filterServerMetrics returned
    exporter,               \* main: the *Exporter NewExporter returned (a pointer, nil at first)
    mutex,                  \* Exporter.mutex: 0 when free, else the goroutine holding it
    totalScrapes,           \* Exporter.totalScrapes
    pc,                     \* each collector goroutine's position in Collect/scrape
    response,               \* scrape: response and err, as e.fetch() returned them
    todo,                   \* scrape: keys of e.prometheusMetrics the range has not visited yet
    up,                     \* Collect: the local up
    ch,                     \* every sample sent on a metric channel, in the order of the sends
    acquired,               \* history: the goroutines in the order they acquired the mutex
    crashed                 \* an unrecovered panic has terminated the process

vars == <<filter, mainPc, selectedServerMetrics, exporter, mutex, totalScrapes,
          pc, response, todo, up, ch, acquired, crashed>>

(***************************************************************************)
(* Bounds of the model.                                                    *)
(***************************************************************************)
\* longest filter string, in characters
MaxFilterLen == 3
\* number of Collect invocations (one per collector goroutine)
NumCollects == 2
\* most result buckets a response carries
MaxBuckets == 1

\* the characters a filter string is made of
FilterChars == {"1", "2", "8", ",", "x", "-"}

(***************************************************************************)
(* Sequence helpers, and pointers: <<>> is nil, <<v>> a pointer to v.      *)
(***************************************************************************)
NilPtr == <<>>

Ptr(v) == <<v>>

\* a nil map, which reads as the empty map
NilMap == <<>>

SeqsUpTo(S, n) == UNION {[1..k -> S] : k \in 0..n}

Range(s) == {s[i] : i \in 1..Len(s)}

(***************************************************************************)
(* The catalogs.                                                           *)
(***************************************************************************)
\* var prometheusMetrics = metrics{...}: field number -> name of the Desc
\* (the Desc is aws_billing_server_<name>, labels type and unit)
prometheusMetrics ==
    (1 :> "amortized_cost") @@ (2 :> "blended_cost") @@ (3 :> "net_amortized_cost") @@
    (4 :> "net_unblended_cost") @@ (5 :> "normalized_usage_amount") @@
    (6 :> "unblended_cost") @@ (7 :> "usage_quantity")

\* var AWSMetrics = awsMetrics{...}, as the map literal
AWSMetricsMap ==
    (1 :> "AmortizedCost") @@ (2 :> "BlendedCost") @@ (3 :> "NetAmortizedCost") @@
    (4 :> "NetUnblendedCost") @@ (5 :> "NormalizedUsageAmount") @@
    (6 :> "UnblendedCost") @@ (7 :> "UsageQuantity")

\* AWSMetrics[field]: a Go map lookup, the zero value "" for a missing key
AWSMetrics(field) ==
    IF field \in DOMAIN AWSMetricsMap THEN AWSMetricsMap[field] ELSE ""

(***************************************************************************)
(* strings.Split(filter, ",") and strconv.Atoi.                            *)
(***************************************************************************)
RECURSIVE SplitFrom(_, _, _)
\* the tokens of s from position i on, cur being the token under construction
SplitFrom(s, i, cur) ==
    IF i > Len(s) THEN <<cur>>
    ELSE IF s[i] = "," THEN <<cur>> \o SplitFrom(s, i + 1, <<>>)
    ELSE SplitFrom(s, i + 1, Append(cur, s[i]))

\* strings.Split(s, ","): always at least one token, empty tokens kept
Split(s) == SplitFrom(s, 1, <<>>)

DigitVal ==
    ("0" :> 0) @@ ("1" :> 1) @@ ("2" :> 2) @@ ("3" :> 3) @@ ("4" :> 4) @@
    ("5" :> 5) @@ ("6" :> 6) @@ ("7" :> 7) @@ ("8" :> 8) @@ ("9" :> 9)

RECURSIVE DigitsFrom(_, _, _)
\* the decimal digits of s from position i on, acc being the value so far:
\* [err, val], err on the first character that is no digit
DigitsFrom(s, i, acc) ==
    IF i > Len(s) THEN [err |-> FALSE, val |-> acc]
    ELSE IF s[i] \notin DOMAIN DigitVal THEN [err |-> TRUE, val |-> 0]
    ELSE DigitsFrom(s, i + 1, acc * 10 + DigitVal[s[i]])

RECURSIVE LeadingDigits(_, _, _)
\* the value of the decimal digits s starts with from position i on
LeadingDigits(s, i, acc) ==
    IF i > Len(s) \/ s[i] \notin DOMAIN DigitVal THEN acc
    ELSE LeadingDigits(s, i + 1, acc * 10 + DigitVal[s[i]])

\* Atoi as C's atoi: the leading digits, 0 when there are none, never an error
AtoiLenient(s) ==
    IF Len(s) = 0 THEN [err |-> FALSE, val |-> 0]
    ELSE LET signed == s[1] \in {"+", "-"}
             body == IF signed THEN Tail(s) ELSE s
             v == LeadingDigits(body, 1, 0)
         IN [err |-> FALSE, val |-> IF s[1] = "-" THEN 0 - v ELSE v]

\* strconv.Atoi(s): optional sign, then one or more decimal digits.
\* (Strings here are far shorter than the 19 digits at which Atoi reports
\* a range error.)
Atoi(s) ==
    IF Len(s) = 0 THEN [err |-> TRUE, val |-> 0]
    ELSE LET signed == s[1] \in {"+", "-"}
             body == IF signed THEN Tail(s) ELSE s
             d == DigitsFrom(body, 1, 0)
         IN IF Len(body) = 0 \/ d.err THEN [err |-> TRUE, val |-> 0]
            ELSE [err |-> FALSE, val |-> IF s[1] = "-" THEN 0 - d.val ELSE d.val]

(***************************************************************************)
(* filterServerMetrics and NewExporter.                                    *)
(***************************************************************************)
RECURSIVE FilterFields(_, _, _)
\* the loop of filterServerMetrics over the tokens: [err, selected]
FilterFields(tokens, i, selected) ==
    IF i > Len(tokens) THEN [err |-> FALSE, selected |-> selected]
    ELSE LET a == Atoi(tokens[i])
         IN IF a.err THEN [err |-> TRUE, selected |-> {}]
            ELSE FilterFields(tokens, i + 1, selected \cup {a.val})

\* the catalog entries whose field is in selected
CatalogSelection(selected) ==
    [field \in {f \in DOMAIN prometheusMetrics : f \in selected} |-> prometheusMetrics[field]]

\* filterServerMetrics rejecting a field number the catalog does not have
filterServerMetricsStrict(f) ==
    IF Len(f) = 0 THEN [err |-> FALSE, metrics |-> CatalogSelection({})]
    ELSE LET r == FilterFields(Split(f), 1, {})
         IN IF r.err \/ ~(r.selected \subseteq DOMAIN prometheusMetrics)
            THEN [err |-> TRUE, metrics |-> NilMap]
            ELSE [err |-> FALSE, metrics |-> CatalogSelection(r.selected)]

\* filterServerMetrics(filter): [err, metrics], metrics a map field -> Desc
filterServerMetrics(f) ==
    IF Len(f) = 0 THEN [err |-> FALSE, metrics |-> CatalogSelection({})]
    ELSE LET r == FilterFields(Split(f), 1, {})
         IN IF r.err THEN [err |-> TRUE, metrics |-> NilMap]
            ELSE [err |-> FALSE, metrics |-> CatalogSelection(r.selected)]

RECURSIVE SelectFields(_, _, _)
\* the loop of NewExporter over the tokens: [err, selected].  selected is
\* the slice handed to fetchHTTP, kept as a bag of names: its order reaches
\* nothing but the request's Metrics parameter.
SelectFields(tokens, i, selected) ==
    IF i > Len(tokens) THEN [err |-> FALSE, selected |-> selected]
    ELSE LET a == Atoi(tokens[i])
         IN IF a.err THEN [err |-> TRUE, selected |-> EmptyBag]
            ELSE SelectFields(tokens, i + 1, selected (+) SetToBag({AWSMetrics(a.val)}))

\* NewExporter(filter, selectedServerMetrics): [err, exporter]
NewExporter(f, selectedMetrics) ==
    LET r == IF Len(f) = 0
             THEN [err |-> FALSE,
                   selected |-> SetToBag({AWSMetricsMap[k] : k \in DOMAIN AWSMetricsMap})]
             ELSE SelectFields(Split(f), 1, EmptyBag)
    IN IF r.err THEN [err |-> TRUE, exporter |-> NilPtr]
       ELSE [err |-> FALSE,
             exporter |-> Ptr([fetch |-> r.selected, prometheusMetrics |-> selectedMetrics])]

(***************************************************************************)
(* What e.fetch() can return.                                              *)
(***************************************************************************)
\* the metric names a result bucket may carry
RespNames == {"AmortizedCost", "BlendedCost"}

\* the amounts a cost item may carry: "12.34", "N/A"
AmountStrings == {<<"1", "2", ".", "3", "4">>, <<"N", "/", "A">>}

\* costexplorer.MetricValue: {Amount *string, Unit *string}
MetricValues ==
    [Amount : {NilPtr} \cup {Ptr(a) : a \in AmountStrings}, Unit : {NilPtr, Ptr("USD")}]

\* ResultByTime.Total: map[string]*MetricValue
Totals == UNION {[K -> MetricValues] : K \in SUBSET RespNames}

\* *GetCostAndUsageOutput: of the output, the number of result buckets and
\* ResultsByTime[0].Total are kept (scrape reads no other bucket)
Outputs ==
    {[nbuckets |-> 0, Total |-> NilMap]} \cup [nbuckets : 1..MaxBuckets, Total : Totals]

\* scrape's response and err before e.fetch() has returned
NoResponse == [err |-> FALSE, out |-> NilPtr]

\* (*GetCostAndUsageOutput, error) as the closure of fetchHTTP returns it:
\* (nil, err) or (resp, nil)
Responses ==
    {[err |-> TRUE, out |-> NilPtr]} \cup [err : {FALSE}, out : {Ptr(o) : o \in Outputs}]

(***************************************************************************)
(* strconv.ParseFloat(s, 64) on decimal notation: optional sign, digits    *)
(* with at most one point, at least one digit.  The value is num/10^scale. *)
(* (Exponents, hexadecimal, underscores, inf and nan need characters the   *)
(* amounts here do not have.)                                              *)
(***************************************************************************)
RECURSIVE FloatFrom(_, _, _, _, _, _)
FloatFrom(s, i, num, scale, sawDot, ndigits) ==
    IF i > Len(s)
    THEN IF ndigits = 0 THEN [err |-> TRUE, num |-> 0, scale |-> 0]
         ELSE [err |-> FALSE, num |-> num, scale |-> scale]
    ELSE IF s[i] = "."
    THEN IF sawDot THEN [err |-> TRUE, num |-> 0, scale |-> 0]
         ELSE FloatFrom(s, i + 1, num, scale, TRUE, ndigits)
    ELSE IF s[i] \notin DOMAIN DigitVal THEN [err |-> TRUE, num |-> 0, scale |-> 0]
    ELSE FloatFrom(s, i + 1, num * 10 + DigitVal[s[i]],
                   IF sawDot THEN scale + 1 ELSE scale, sawDot, ndigits + 1)

ParseFloat(s) ==
    IF Len(s) = 0 THEN [err |-> TRUE, num |-> 0, scale |-> 0]
    ELSE LET signed == s[1] \in {"+", "-"}
             p == FloatFrom(IF signed THEN Tail(s) ELSE s, 1, 0, 0, FALSE, 0)
         IN IF p.err THEN p
            ELSE [err |-> FALSE, num |-> IF s[1] = "-" THEN 0 - p.num ELSE p.num,
                  scale |-> p.scale]

(***************************************************************************)
(* Samples.                                                                *)
(***************************************************************************)
\* the value of a gauge or counter sample that is a whole number
Whole(n) == [num |-> n, scale |-> 0]

\* a sample sent by goroutine g: the Desc's name, the label values, the value
Sample(g, desc, type, unit, value) ==
    [inv |-> g, desc |-> desc, type |-> type, unit |-> unit, value |-> value]

\* ScrapeItem with the error of ParseFloat ignored: the sample is sent with
\* the zero value ParseFloat returns beside its error
ScrapeItemIgnoreErr(g, r, metrics, key) ==
    LET none == Sample(g, "", "", "", Whole(0))
        name == AWSMetrics(key)
    IN IF r.out[1].nbuckets = 0 THEN [kind |-> "panic", sample |-> none]
       ELSE IF name \notin DOMAIN r.out[1].Total THEN [kind |-> "skip", sample |-> none]
       ELSE LET cost == r.out[1].Total[name]
            IN IF cost.Amount = NilPtr THEN [kind |-> "panic", sample |-> none]
               ELSE LET f == ParseFloat(cost.Amount[1])
                    IN IF cost.Unit = NilPtr THEN [kind |-> "panic", sample |-> none]
                       ELSE [kind |-> "send",
                             sample |-> Sample(g, metrics[key], name, cost.Unit[1],
                                               [num |-> f.num, scale |-> f.scale])]

\* ScrapeItem with the error of ParseFloat fatal (a panic in place of the skip)
ScrapeItemMustParse(g, r, metrics, key) ==
    LET none == Sample(g, "", "", "", Whole(0))
        name == AWSMetrics(key)
    IN IF r.out[1].nbuckets = 0 THEN [kind |-> "panic", sample |-> none]
       ELSE IF name \notin DOMAIN r.out[1].Total THEN [kind |-> "skip", sample |-> none]
       ELSE LET cost == r.out[1].Total[name]
            IN IF cost.Amount = NilPtr THEN [kind |-> "panic", sample |-> none]
               ELSE LET f == ParseFloat(cost.Amount[1])
                    IN IF f.err THEN [kind |-> "panic", sample |-> none]
                       ELSE IF cost.Unit = NilPtr THEN [kind |-> "panic", sample |-> none]
                       ELSE [kind |-> "send",
                             sample |-> Sample(g, metrics[key], name, cost.Unit[1],
                                               [num |-> f.num, scale |-> f.scale])]

\* One iteration of scrape's outer range, for key: what the inner range over
\* ResultsByTime[0].Total does.  Only the item whose name is AWSMetrics[key]
\* is dereferenced; a map holds it at most once.
\*   "panic": index out of range, or nil pointer dereference
\*   "skip":  no such item, or ParseFloat failed
\*   "send":  ch <- MustNewConstMetric(metric, GaugeValue, f, awsCostKey, *cost.Unit)
ScrapeItem(g, r, metrics, key) ==
    LET none == Sample(g, "", "", "", Whole(0))
        name == AWSMetrics(key)
    IN IF r.out[1].nbuckets = 0 THEN [kind |-> "panic", sample |-> none]
       ELSE IF name \notin DOMAIN r.out[1].Total THEN [kind |-> "skip", sample |-> none]
       ELSE LET cost == r.out[1].Total[name]
            IN IF cost.Amount = NilPtr THEN [kind |-> "panic", sample |-> none]
               ELSE LET f == ParseFloat(cost.Amount[1])
                    IN IF f.err THEN [kind |-> "skip", sample |-> none]
                       ELSE IF cost.Unit = NilPtr THEN [kind |-> "panic", sample |-> none]
                       ELSE [kind |-> "send",
                             sample |-> Sample(g, metrics[key], name, cost.Unit[1],
                                               [num |-> f.num, scale |-> f.scale])]

(***************************************************************************)
(* The state after the flags are parsed, and main up to ListenAndServe.    *)
(***************************************************************************)
Goroutines == 1..NumCollects

Init ==
    /\ filter \in SeqsUpTo(FilterChars, MaxFilterLen)
    /\ mainPc = "start"
    /\ selectedServerMetrics = NilMap
    /\ exporter = NilPtr
    /\ mutex = 0
    /\ totalScrapes = 0
    /\ pc = [g \in Goroutines |-> "idle"]
    /\ response = [g \in Goroutines |-> NoResponse]
    /\ todo = [g \in Goroutines |-> {}]
    /\ up = [g \in Goroutines |-> 0]
    /\ ch = <<>>
    /\ acquired = <<>>
    /\ crashed = FALSE

\* main, lines 242-245: filterServerMetrics, log.Fatal on error
MainFilter ==
    /\ mainPc = "start"
    /\ LET r == filterServerMetrics(filter)
       IN IF r.err
          THEN mainPc' = "fatal" /\ UNCHANGED selectedServerMetrics
          ELSE mainPc' = "filtered" /\ selectedServerMetrics' = r.metrics
    /\ UNCHANGED <<filter, exporter, mutex, totalScrapes, pc, response, todo, up,
                   ch, acquired, crashed>>

\* main, lines 250-253: NewExporter, log.Fatal on error
MainNewExporter ==
    /\ mainPc = "filtered"
    /\ LET r == NewExporter(filter, selectedServerMetrics)
       IN IF r.err
          THEN mainPc' = "fatal" /\ UNCHANGED exporter
          ELSE mainPc' = "constructed" /\ exporter' = r.exporter
    /\ UNCHANGED <<filter, selectedServerMetrics, mutex, totalScrapes, pc, response,
                   todo, up, ch, acquired, crashed>>

\* main, lines 254-268: MustRegister and ListenAndServe.  The flag string is
\* not read again: the model forgets it.
MainServe ==
    /\ mainPc = "constructed"
    /\ mainPc' = "serving"
    /\ filter' = <<>>
    /\ UNCHANGED <<selectedServerMetrics, exporter, mutex, totalScrapes, pc, response,
                   todo, up, ch, acquired, crashed>>

(***************************************************************************)
(* Collect and scrape, one invocation per collector goroutine.             *)
(*   "idle" -> "lock" -> "inc" -> "fetch" -> "range" -> "emitUp"           *)
(*          -> "emitTotal" -> "unlock" -> "done",                          *)
(* and "range" -> "panic" -> "panicked" when the range panics.             *)
(***************************************************************************)
Serving == mainPc = "serving" /\ ~crashed

\* the receiver of Collect and scrape
e == exporter[1]

\* the registry calls e.Collect(ch) in a goroutine of its own, which
\* arrives at e.mutex.Lock()
CollectCall(g) ==
    /\ Serving
    /\ pc[g] = "idle"
    /\ pc' = [pc EXCEPT ![g] = "lock"]
    /\ UNCHANGED <<filter, mainPc, selectedServerMetrics, exporter, mutex, totalScrapes,
                   response, todo, up, ch, acquired, crashed>>

\* e.mutex.RLock() in place of Lock(): readers do not exclude each other
MutexRLock(g) ==
    /\ Serving
    /\ pc[g] = "lock"
    /\ pc' = [pc EXCEPT ![g] = "inc"]
    /\ acquired' = Append(acquired, g)
    /\ UNCHANGED <<filter, mainPc, selectedServerMetrics, exporter, mutex, totalScrapes,
                   response, todo, up, ch, crashed>>

\* e.mutex.Lock() returns: the mutex is free and g takes it
MutexLock(g) ==
    /\ Serving
    /\ pc[g] = "lock"
    /\ mutex = 0
    /\ mutex' = g
    /\ pc' = [pc EXCEPT ![g] = "inc"]
    /\ acquired' = Append(acquired, g)
    /\ UNCHANGED <<filter, mainPc, selectedServerMetrics, exporter, totalScrapes,
                   response, todo, up, ch, crashed>>

\* e.totalScrapes.Set(1) in place of Inc()
ScrapeSet(g) ==
    /\ Serving
    /\ pc[g] = "inc"
    /\ totalScrapes' = 1
    /\ pc' = [pc EXCEPT ![g] = "fetch"]
    /\ UNCHANGED <<filter, mainPc, selectedServerMetrics, exporter, mutex,
                   response, todo, up, ch, acquired, crashed>>

\* scrape: e.totalScrapes.Inc()
ScrapeInc(g) ==
    /\ Serving
    /\ pc[g] = "inc"
    /\ totalScrapes' = totalScrapes + 1
    /\ pc' = [pc EXCEPT ![g] = "fetch"]
    /\ UNCHANGED <<filter, mainPc, selectedServerMetrics, exporter, mutex,
                   response, todo, up, ch, acquired, crashed>>

\* the error branch returning 1
ScrapeFetchUpOnError(g) ==
    /\ Serving
    /\ pc[g] = "fetch"
    /\ \E r \in Responses :
        /\ response' = [response EXCEPT ![g] = r]
        /\ IF r.err
           THEN /\ up' = [up EXCEPT ![g] = 1]
                /\ pc' = [pc EXCEPT ![g] = "emitUp"]
                /\ UNCHANGED todo
           ELSE /\ todo' = [todo EXCEPT ![g] = DOMAIN e.prometheusMetrics]
                /\ pc' = [pc EXCEPT ![g] = "range"]
                /\ UNCHANGED up
    /\ UNCHANGED <<filter, mainPc, selectedServerMetrics, exporter, mutex, totalScrapes,
                   ch, acquired, crashed>>

\* scrape: response, err := e.fetch(); on an error, log it and return 0;
\* else start the range over e.prometheusMetrics
ScrapeFetch(g) ==
    /\ Serving
    /\ pc[g] = "fetch"
    /\ \E r \in Responses :
        /\ response' = [response EXCEPT ![g] = r]
        /\ IF r.err
           THEN /\ up' = [up EXCEPT ![g] = 0]
                /\ pc' = [pc EXCEPT ![g] = "emitUp"]
                /\ UNCHANGED todo
           ELSE /\ todo' = [todo EXCEPT ![g] = DOMAIN e.prometheusMetrics]
                /\ pc' = [pc EXCEPT ![g] = "range"]
                /\ UNCHANGED up
    /\ UNCHANGED <<filter, mainPc, selectedServerMetrics, exporter, mutex, totalScrapes,
                   ch, acquired, crashed>>

\* scrape: one iteration of the range over e.prometheusMetrics (a Go map:
\* any key not visited yet may come next)
ScrapeRange(g) ==
    /\ Serving
    /\ pc[g] = "range"
    /\ \E key \in todo[g] :
        LET o == ScrapeItem(g, response[g], e.prometheusMetrics, key)
        IN /\ todo' = [todo EXCEPT ![g] = @ \ {key}]
           /\ ch' = IF o.kind = "send" THEN Append(ch, o.sample) ELSE ch
           /\ pc' = [pc EXCEPT ![g] = IF o.kind = "panic" THEN "panic" ELSE "range"]
    /\ UNCHANGED <<filter, mainPc, selectedServerMetrics, exporter, mutex, totalScrapes,
                   response, up, acquired, crashed>>

\* scrape: the range is over, return 1
ScrapeReturn(g) ==
    /\ Serving
    /\ pc[g] = "range"
    /\ todo[g] = {}
    /\ up' = [up EXCEPT ![g] = 1]
    /\ pc' = [pc EXCEPT ![g] = "emitUp"]
    /\ UNCHANGED <<filter, mainPc, selectedServerMetrics, exporter, mutex, totalScrapes,
                   response, todo, ch, acquired, crashed>>

\* Collect: ch <- MustNewConstMetric(awsBillingUp, GaugeValue, up)
CollectUp(g) ==
    /\ Serving
    /\ pc[g] = "emitUp"
    /\ ch' = Append(ch, Sample(g, "up", "", "", Whole(up[g])))
    /\ pc' = [pc EXCEPT ![g] = "emitTotal"]
    /\ UNCHANGED <<filter, mainPc, selectedServerMetrics, exporter, mutex, totalScrapes,
                   response, todo, up, acquired, crashed>>

\* Collect: ch <- e.totalScrapes (the sample is recorded with the counter's
\* value at the send)
CollectTotalScrapes(g) ==
    /\ Serving
    /\ pc[g] = "emitTotal"
    /\ ch' = Append(ch, Sample(g, "exporter_total_scrapes", "", "", Whole(totalScrapes)))
    /\ pc' = [pc EXCEPT ![g] = "unlock"]
    /\ UNCHANGED <<filter, mainPc, selectedServerMetrics, exporter, mutex, totalScrapes,
                   response, todo, up, acquired, crashed>>

\* Collect returns: the deferred e.mutex.Unlock(); the invocation's locals
\* (response, up) are gone
CollectUnlock(g) ==
    /\ Serving
    /\ pc[g] = "unlock"
    /\ mutex' = 0
    /\ pc' = [pc EXCEPT ![g] = "done"]
    /\ response' = [response EXCEPT ![g] = NoResponse]
    /\ up' = [up EXCEPT ![g] = 0]
    /\ UNCHANGED <<filter, mainPc, selectedServerMetrics, exporter, totalScrapes,
                   todo, ch, acquired, crashed>>

\* a panic in scrape unwinds through Collect: the deferred Unlock runs, and
\* the panic, which nothing in the collector goroutine recovers, ends the process
CollectPanic(g) ==
    /\ Serving
    /\ pc[g] = "panic"
    /\ mutex' = 0
    /\ pc' = [pc EXCEPT ![g] = "panicked"]
    /\ crashed' = TRUE
    /\ UNCHANGED <<filter, mainPc, selectedServerMetrics, exporter, totalScrapes,
                   response, todo, up, ch, acquired>>

\* the steps of goroutine g
Collect(g) ==
    \/ CollectCall(g)
    \/ MutexLock(g)
    \/ ScrapeInc(g)
    \/ ScrapeFetch(g)
    \/ ScrapeRange(g)
    \/ ScrapeReturn(g)
    \/ CollectUp(g)
    \/ CollectTotalScrapes(g)
    \/ CollectUnlock(g)
    \/ CollectPanic(g)

Next ==
    \/ MainFilter
    \/ MainNewExporter
    \/ MainServe
    \/ \E g \in Goroutines : Collect(g)

Spec == Init /\ [][Next]_vars

\* The registry's goroutines are scheduled fairly, every fetch call returns,
\* and a goroutine waiting for the mutex gets it when it is free often enough.
Fairness ==
    \A g \in Goroutines : WF_vars(Collect(g)) /\ SF_vars(MutexLock(g))

\* the filters of the fair runs: "1,2" and "8"
InitFair == Init /\ filter \in {<<"1", ",", "2">>, <<"8">>}

FairSpec == InitFair /\ [][Next]_vars /\ Fairness

(***************************************************************************)
(* Vocabulary of the properties.                                           *)
(***************************************************************************)
\* positions of Collect between Lock() returning and the deferred Unlock()
InScrape == {"inc", "fetch", "range", "emitUp", "emitTotal", "unlock", "panic"}

\* positions after e.totalScrapes.Inc()
AfterInc == {"fetch", "range", "emitUp", "emitTotal", "unlock", "done", "panic", "panicked"}

\* positions at which scrape has returned and response is still in scope
AfterScrape == {"emitUp", "emitTotal", "unlock"}

SamplesOf(g) == SelectSeq(ch, LAMBDA s : s.inv = g)

CostSamplesOf(g) == SelectSeq(ch, LAMBDA s : s.inv = g /\ s.desc \notin {"up", "exporter_total_scrapes"})

\* how many samples g has sent for the Desc desc
CountOf(g, desc) == Len(SelectSeq(ch, LAMBDA s : s.inv = g /\ s.desc = desc))

\* the place of g in the order of acquisition, 0 when it has not acquired
PlaceOf(g) ==
    IF \E k \in 1..Len(acquired) : acquired[k] = g
    THEN CHOOSE k \in 1..Len(acquired) : acquired[k] = g
    ELSE 0

\* the enabled metrics of the exporter
Enabled == DOMAIN e.prometheusMetrics

\* the name of key is in the first result bucket of r
InFirstBucket(r, key) ==
    ~r.err /\ r.out # NilPtr /\ r.out[1].nbuckets >= 1 /\ AWSMetrics(key) \in DOMAIN r.out[1].Total

\* ... with an amount that is present and parses as a float
ParsableIn(r, key) ==
    /\ InFirstBucket(r, key)
    /\ r.out[1].Total[AWSMetrics(key)].Amount # NilPtr
    /\ ~ParseFloat(r.out[1].Total[AWSMetrics(key)].Amount[1]).err

\* ... with an amount that is present and does not parse
UnparsableIn(r, key) ==
    /\ InFirstBucket(r, key)
    /\ r.out[1].Total[AWSMetrics(key)].Amount # NilPtr
    /\ ParseFloat(r.out[1].Total[AWSMetrics(key)].Amount[1]).err

\* a response returned without error that is malformed: no result bucket, or
\* an item without amount or without unit
Malformed(r) ==
    /\ ~r.err
    /\ r.out # NilPtr
    /\ \/ r.out[1].nbuckets = 0
       \/ \E n \in DOMAIN r.out[1].Total :
             r.out[1].Total[n].Amount = NilPtr \/ r.out[1].Total[n].Unit = NilPtr

\* the comma-separated tokens of a filter; the empty filter has none
Tokens(f) == IF Len(f) = 0 THEN {} ELSE Range(Split(f))

\* a token that is written as an integer: an optional sign and digits
IsIntegerToken(t) ==
    /\ Len(t) >= 1
    /\ LET body == IF t[1] \in {"+", "-"} THEN Tail(t) ELSE t
       IN Len(body) >= 1 /\ \A i \in 1..Len(body) : body[i] \in DOMAIN DigitVal

HasNonIntegerToken(f) == \E t \in Tokens(f) : ~IsIntegerToken(t)

\* the field numbers a filter of integer tokens names
FieldsOf(f) == {Atoi(t).val : t \in Tokens(f)}

CatalogIds == 1..7

\* main has gone past the flags and still holds the filter string
Constructing == mainPc \in {"filtered", "constructed", "fatal"}

(***************************************************************************)
(* C1                                                                      *)
(***************************************************************************)
\* C1: at most one Collect invocation is between Lock and Unlock at any
\* time; in the order of the sends, the samples of one invocation are
\* contiguous, the invocations follow each other in the order they acquired
\* the mutex, and an invocation's stream is complete (it ends with the
\* scrape counter, after the up gauge) before another's begins.
C1_NoInterleaving ==
    /\ Cardinality({g \in Goroutines : pc[g] \in InScrape}) <= 1
    /\ \A g \in Goroutines : pc[g] \in InScrape => mutex = g
    /\ \A i \in 1..Len(ch) : \A k \in i..Len(ch) :
          /\ PlaceOf(ch[i].inv) <= PlaceOf(ch[k].inv)
          /\ ch[i].inv = ch[k].inv => \A j \in i..k : ch[j].inv = ch[i].inv
    /\ \A i \in 1..(Len(ch) - 1) :
          ch[i].inv # ch[i + 1].inv =>
              /\ ch[i].desc = "exporter_total_scrapes"
              /\ i >= 2 /\ ch[i - 1].desc = "up" /\ ch[i - 1].inv = ch[i].inv

\* two invocations have run one after the other, the first having sent a
\* cost sample, its up gauge and the counter, the second a cost sample
C1_Witness ==
    \E g, h \in Goroutines :
        /\ g # h
        /\ pc[g] = "done" /\ Len(SamplesOf(g)) >= 3
        /\ pc[h] \in InScrape /\ Len(CostSamplesOf(h)) >= 1

(***************************************************************************)
(* C2                                                                      *)
(***************************************************************************)
\* the state part of C2
C2_CounterState ==
    /\ totalScrapes = Cardinality({g \in Goroutines : pc[g] \in AfterInc})
    /\ (\A g \in Goroutines : pc[g] \in {"idle", "lock", "done"}) =>
           totalScrapes = Cardinality({g \in Goroutines : pc[g] = "done"})
    /\ \A i \in 1..Len(ch) :
           ch[i].desc = "exporter_total_scrapes" =>
               ch[i].value = Whole(PlaceOf(ch[i].inv))

\* C2: totalScrapes is the number of Collect invocations that have passed
\* Inc (so N once N invocations have completed and none is running), a step
\* leaves it as it is or adds exactly 1, and the counter sample of the k-th
\* invocation to acquire the mutex carries k.
C2_Counter ==
    /\ []C2_CounterState
    /\ [][totalScrapes' = totalScrapes \/ totalScrapes' = totalScrapes + 1]_vars

\* two invocations have completed, one whose fetch failed (up 0) and one
\* whose fetch succeeded (up 1), and the counter is 2
C2_Witness ==
    /\ totalScrapes = 2
    /\ Cardinality({g \in Goroutines : pc[g] = "done"}) = 2
    /\ \E i, j \in 1..Len(ch) :
          /\ ch[i].desc = "up" /\ ch[i].value = Whole(0)
          /\ ch[j].desc = "up" /\ ch[j].value = Whole(1)

(***************************************************************************)
(* C3                                                                      *)
(***************************************************************************)
\* C3: an invocation whose fetch returned an error does not panic, sends no
\* cost sample, sends up with value 0 and then the counter, and nothing
\* else; and the up value of every invocation is 0 if its own fetch failed
\* and 1 if not, whatever earlier invocations did.
C3_FetchError ==
    \A g \in Goroutines :
        /\ pc[g] \in {"panic", "panicked"} => ~response[g].err
        /\ pc[g] \in AfterScrape =>
              /\ up[g] = IF response[g].err THEN 0 ELSE 1
              /\ response[g].err => Len(CostSamplesOf(g)) = 0
              /\ pc[g] \in {"emitTotal", "unlock"} =>
                    /\ CountOf(g, "up") = 1
                    /\ \A i \in 1..Len(ch) :
                          (ch[i].inv = g /\ ch[i].desc = "up") => ch[i].value = Whole(up[g])
              /\ (pc[g] = "unlock" /\ response[g].err) =>
                    SamplesOf(g) = <<Sample(g, "up", "", "", Whole(0)),
                                     Sample(g, "exporter_total_scrapes", "", "",
                                            Whole(PlaceOf(g)))>>

\* an invocation whose fetch succeeded has sent up = 1 right after an
\* invocation whose fetch failed and which sent up = 0
C3_Witness ==
    \E g \in Goroutines :
        /\ pc[g] = "unlock"
        /\ ~response[g].err
        /\ \E i, j \in 1..Len(ch) :
              /\ i < j
              /\ ch[i].inv # g /\ ch[i].desc = "up" /\ ch[i].value = Whole(0)
              /\ ch[j].inv = g /\ ch[j].desc = "up" /\ ch[j].value = Whole(1)

(***************************************************************************)
(* C4                                                                      *)
(***************************************************************************)
\* exactly one up gauge sample and one counter sample from g
OneUpOneCounter(g) ==
    /\ CountOf(g, "up") = 1
    /\ CountOf(g, "exporter_total_scrapes") = 1
    /\ Len(SamplesOf(g)) = Len(CostSamplesOf(g)) + 2

C5_EmptyFilterEnablesAll ==
    (mainPc = "constructed" /\ filter = <<>>) =>
        /\ \A k \in CatalogIds : BagIn(AWSMetricsMap[k], e.fetch)
        /\ Enabled = CatalogIds

(***************************************************************************)
(* C6                                                                      *)
(***************************************************************************)
\* C6: for a filter with a token that is not an integer, wherever the token
\* is, filterServerMetrics and NewExporter each return an error, and main
\* ends in log.Fatal without a selection or an Exporter.
C6_NonIntegerTokenFails ==
    (mainPc # "serving" /\ HasNonIntegerToken(filter)) =>
        /\ mainPc \in {"start", "fatal"}
        /\ filterServerMetrics(filter).err
        /\ NewExporter(filter, CatalogSelection({})).err
        /\ NewExporter(filter, CatalogSelection(CatalogIds)).err
        /\ selectedServerMetrics = NilMap
        /\ exporter = NilPtr

\* start-up was aborted on a filter whose last token is the bad one, after
\* a good one
C6_Witness ==
    /\ mainPc = "fatal"
    /\ filter = <<"1", ",", "x">>

(***************************************************************************)
(* C7                                                                      *)
(***************************************************************************)
\* an integer token that names no catalog field
HasUnknownField(f) ==
    ~HasNonIntegerToken(f) /\ \E v \in FieldsOf(f) : v \notin CatalogIds

C8_EveryOutcomeRecoverable ==
    /\ ~crashed
    /\ \A g \in Goroutines : pc[g] \notin {"panic", "panicked"}

(***************************************************************************)
(* C9                                                                      *)
(***************************************************************************)
\* C9: when the fetch returns a response that is not malformed and in which
\* the amount of an enabled metric does not parse, the invocation does not
\* panic, returns up = 1, and sends exactly the samples of the other enabled
\* metrics in the first bucket, then up with value 1, then the counter.
C9_UnparsableAmountDropped ==
    \A g \in Goroutines :
        (/\ pc[g] \in {"range", "panic", "panicked"} \cup AfterScrape
         /\ ~response[g].err
         /\ ~Malformed(response[g])
         /\ \E key \in Enabled : UnparsableIn(response[g], key)) =>
            /\ pc[g] \notin {"panic", "panicked"}
            /\ \A key \in Enabled :
                  UnparsableIn(response[g], key) =>
                      CountOf(g, e.prometheusMetrics[key]) = 0
            /\ pc[g] \in AfterScrape =>
                  /\ up[g] = 1
                  /\ \A key \in Enabled :
                        (InFirstBucket(response[g], key) /\ ~UnparsableIn(response[g], key)) =>
                            CountOf(g, e.prometheusMetrics[key]) = 1
            /\ pc[g] = "unlock" =>
                  LET s == SamplesOf(g)
                  IN /\ Len(s) >= 2
                     /\ s[Len(s) - 1] = Sample(g, "up", "", "", Whole(1))
                     /\ s[Len(s)].desc = "exporter_total_scrapes"

\* fields 1 and 2 are enabled, the amount of AmortizedCost does not parse
\* and that of BlendedCost does: the invocation has sent the blended_cost
\* sample with value 12.34, up = 1 and the counter
C9_Witness ==
    \E g \in Goroutines :
        /\ pc[g] = "unlock"
        /\ Enabled = {1, 2}
        /\ UnparsableIn(response[g], 1)
        /\ SamplesOf(g) = <<Sample(g, "blended_cost", "BlendedCost", "USD",
                                   [num |-> 1234, scale |-> 2]),
                            Sample(g, "up", "", "", Whole(1)),
                            Sample(g, "exporter_total_scrapes", "", "", Whole(PlaceOf(g)))>>

(***************************************************************************)
(* C10                                                                     *)
(***************************************************************************)
\* C10: under fair scheduling, every fetch call returning, an invocation
\* that waits for the mutex eventually completes.
C10_WaitersComplete ==
    \A g \in Goroutines : (pc[g] = "lock") ~> (pc[g] = "done")
====
